---- MODULE Spec2Model ----
(***************************************************************************)
(* Inference-time aggregation and confidence calibration of the HFT        *)
(* ensemble (model.py, models/ensemble_model.py,                           *)
(* models/confidence_calibration.py).                                      *)
(*                                                                         *)
(* Numbers: the code computes in IEEE doubles; the model computes the same *)
(* expressions, in the same order, over exact rationals [n, d] kept in     *)
(* lowest terms with d > 0.  Class indices are 0, 1, 2 as in the code.     *)
(***************************************************************************)
EXTENDS Integers, Sequences, FiniteSets, TLC

VARIABLES
    is_loaded,   \* HFTModel.is_loaded
    ensemble,    \* HFTModel.ensemble: None or the EnsemblePredictor's fields
    predictor,   \* HFTModel.predictor / calibrator: None or the calibrator's temperature
    call,        \* the call in progress (predict_batch's loop position), or None
    ret,         \* what the last completed call returned or raised
    inp,         \* arguments handed to a function under test
    res          \* what that function returned

vars == <<is_loaded, ensemble, predictor, call, ret, inp, res>>

None == [kind |-> "None"]

------------------------------------------------------------------------------
(* Exact rational arithmetic.                                              *)

Abs(x) == IF x < 0 THEN -x ELSE x

RECURSIVE GCD(_, _)
GCD(a, b) == IF b = 0 THEN a ELSE GCD(b, a % b)

R(n, d) ==
    LET g == GCD(Abs(n), Abs(d))
        s == IF d < 0 THEN -1 ELSE 1
    IN  [n |-> (s * n) \div g, d |-> (s * d) \div g]

RInt(k) == [n |-> k, d |-> 1]
RAdd(a, b) == R(a.n * b.d + b.n * a.d, a.d * b.d)
RSub(a, b) == R(a.n * b.d - b.n * a.d, a.d * b.d)
RMul(a, b) == R(a.n * b.n, a.d * b.d)
RDivInt(a, k) == R(a.n, a.d * k)
RLt(a, b) == a.n * b.d < b.n * a.d
RLe(a, b) == a.n * b.d <= b.n * a.d
RMin(a, b) == IF RLt(b, a) THEN b ELSE a
RDiv(a, b) == R(a.n * b.d, a.d * b.n)

RECURSIVE RSum(_)
RSum(xs) == IF xs = <<>> THEN RInt(0) ELSE RAdd(Head(xs), RSum(Tail(xs)))

------------------------------------------------------------------------------
(* Bounds of the input grids.                                              *)

ConfDen == 10       \* base confidences k/ConfDen, k in 0..ConfDen
AgreeDen == 5       \* agreement rates k/AgreeDen besides the scorer's thirds
MinConfDen == 10    \* min_confidence k/MinConfDen besides the default
MaxNModels == 2     \* n_models in 0..MaxNModels besides the 5 the callers pass
MaxVal == 3         \* a validation set has at most MaxVal labeled samples
MaxBase == 2        \* at most MaxBase base predictors are loaded

Thirds == {R(0, 3), R(1, 3), R(2, 3), R(3, 3)}

\* The grid k/ConfDen and 0.36, a value whose unanimous multiplicative boost
\* (0.76032) lies between min_confidence 0.75 and the floor value 0.80.
BaseConfidences == {R(k, ConfDen) : k \in 0..ConfDen} \cup {R(9, 25)}

AgreementRates ==
    Thirds \cup {R(67, 100), R(4, 5)} \cup {R(k, AgreeDen) : k \in 0..AgreeDen}

DefaultMinConfidence == R(3, 4)

MinConfidences ==
    {DefaultMinConfidence, R(19, 20)} \cup {R(k, MinConfDen) : k \in 0..MinConfDen}

NModels == {5} \cup 0..MaxNModels

------------------------------------------------------------------------------
(* ConfidenceCalibrator, both policies.                                    *)

\* The multiplicative policy with the high-agreement step taken only above 0.8.
ensemble_confidence_boost_strict(base_confidence, agreement_rate, n_models) ==
    LET agreement_boost0 ==
            RAdd(RInt(1), RMul(RSub(agreement_rate, R(1, 2)), R(2, 5)))
        agreement_boost ==
            IF agreement_rate = RInt(1)
            THEN RMul(agreement_boost0, R(8, 5))
            ELSE agreement_boost0
        boosted0 == RMul(base_confidence, agreement_boost)
        boosted ==
            IF RLt(R(4, 5), agreement_rate)
            THEN RMul(boosted0, R(11, 10))
            ELSE boosted0
    IN  RMin(boosted, R(19, 20))

\* The multiplicative policy with the agreement term subtracted.
ensemble_confidence_boost_minus(base_confidence, agreement_rate, n_models) ==
    LET agreement_boost0 ==
            RSub(RInt(1), RMul(RSub(agreement_rate, R(1, 2)), R(2, 5)))
        agreement_boost ==
            IF agreement_rate = RInt(1)
            THEN RMul(agreement_boost0, R(8, 5))
            ELSE agreement_boost0
        boosted0 == RMul(base_confidence, agreement_boost)
        boosted ==
            IF RLe(R(4, 5), agreement_rate)
            THEN RMul(boosted0, R(11, 10))
            ELSE boosted0
    IN  RMin(boosted, R(19, 20))

\* The multiplicative policy without its cap.
ensemble_confidence_boost_uncapped(base_confidence, agreement_rate, n_models) ==
    LET agreement_boost0 ==
            RAdd(RInt(1), RMul(RSub(agreement_rate, R(1, 2)), R(2, 5)))
        agreement_boost ==
            IF agreement_rate = RInt(1)
            THEN RMul(agreement_boost0, R(8, 5))
            ELSE agreement_boost0
        boosted0 == RMul(base_confidence, agreement_boost)
    IN  IF RLe(R(4, 5), agreement_rate) THEN RMul(boosted0, R(11, 10)) ELSE boosted0

\* model.py: the multiplicative policy, in the code's order of operations.
ensemble_confidence_boost(base_confidence, agreement_rate, n_models) ==
    LET agreement_boost0 ==
            RAdd(RInt(1), RMul(RSub(agreement_rate, R(1, 2)), R(2, 5)))
        agreement_boost ==
            IF agreement_rate = RInt(1)
            THEN RMul(agreement_boost0, R(8, 5))
            ELSE agreement_boost0
        boosted0 == RMul(base_confidence, agreement_boost)
        boosted ==
            IF RLe(R(4, 5), agreement_rate)
            THEN RMul(boosted0, R(11, 10))
            ELSE boosted0
    IN  RMin(boosted, R(19, 20))

\* The additive policy with the model-count bonus left uncapped.
cc_ensemble_confidence_boost_nomin(base_confidence, agreement_rate, n_models) ==
    LET agreement_bonus == RMul(agreement_rate, R(3, 10))
        model_bonus == R(n_models, 10)
        boosted == RAdd(RAdd(base_confidence, agreement_bonus), model_bonus)
    IN  RMin(boosted, R(99, 100))

\* models/confidence_calibration.py: the additive policy.
cc_ensemble_confidence_boost(base_confidence, agreement_rate, n_models) ==
    LET agreement_bonus == RMul(agreement_rate, R(3, 10))
        model_bonus == RMin(R(n_models, 10), R(1, 10))
        boosted == RAdd(RAdd(base_confidence, agreement_bonus), model_bonus)
    IN  RMin(boosted, R(99, 100))

\* The floor taken from two agreeing methods on (threshold 0.6).
high_confidence_loose(base_confidence, agreement_rate, min_confidence) ==
    LET boosted_confidence ==
            ensemble_confidence_boost(base_confidence, agreement_rate, 5)
    IN  IF RLt(boosted_confidence, min_confidence) /\ RLe(R(3, 5), agreement_rate)
        THEN RAdd(min_confidence, R(1, 20))
        ELSE boosted_confidence

\* The floor with its agreement threshold 0.67 taken as two thirds.
high_confidence_two_thirds(base_confidence, agreement_rate, min_confidence) ==
    LET boosted_confidence ==
            ensemble_confidence_boost(base_confidence, agreement_rate, 5)
    IN  IF RLt(boosted_confidence, min_confidence) /\ RLe(R(2, 3), agreement_rate)
        THEN RAdd(min_confidence, R(1, 20))
        ELSE boosted_confidence

\* model.py, predict_ensemble_high_confidence: boost, then the minimum floor.
high_confidence(base_confidence, agreement_rate, min_confidence) ==
    LET boosted_confidence ==
            ensemble_confidence_boost(base_confidence, agreement_rate, 5)
    IN  IF RLt(boosted_confidence, min_confidence) /\ RLe(R(67, 100), agreement_rate)
        THEN RAdd(min_confidence, R(1, 20))
        ELSE boosted_confidence

\* models/confidence_calibration.py, predict_ensemble_high_confidence: boost,
\* the extra unanimous step, then the minimum floor.
cc_high_confidence(base_confidence, agreement_rate, min_confidence) ==
    LET boosted0 == cc_ensemble_confidence_boost(base_confidence, agreement_rate, 5)
        boosted_confidence ==
            IF agreement_rate = RInt(1)
            THEN RMin(RMul(boosted0, R(6, 5)), R(19, 20))
            ELSE boosted0
    IN  IF RLt(boosted_confidence, min_confidence) /\ RLe(R(67, 100), agreement_rate)
        THEN RAdd(min_confidence, R(1, 20))
        ELSE boosted_confidence

\* test_real_confidence.py lines 71-73: the boosted confidence the script
\* prints, min(raw + agreement * 0.3 + min(5/10, 0.1), 0.99).
test_boosted_confidence(raw_confidence, agreement_rate) ==
    LET boosted_confidence ==
            RAdd(RAdd(raw_confidence, RMul(agreement_rate, R(3, 10))),
                 RMin(R(5, 10), R(1, 10)))
    IN  RMin(boosted_confidence, R(99, 100))

------------------------------------------------------------------------------
(* The calibrator under test: Init draws the arguments, each action is one *)
(* call.                                                                   *)

CalibInputs ==
    [base_confidence : BaseConfidences, agreement_rate : AgreementRates,
     n_models : NModels, min_confidence : MinConfidences]

IdleObject ==
    /\ is_loaded = FALSE
    /\ ensemble = None
    /\ predictor = None
    /\ call = None
    /\ ret = None

InitCalib ==
    /\ IdleObject
    /\ inp \in CalibInputs
    /\ res = None

CallMultiplicativeBoost ==
    /\ res = None
    /\ res' = [kind |-> "ensemble_confidence_boost",
               confidence |-> ensemble_confidence_boost(
                   inp.base_confidence, inp.agreement_rate, inp.n_models)]
    /\ UNCHANGED <<is_loaded, ensemble, predictor, call, ret, inp>>

CallAdditiveBoost ==
    /\ res = None
    /\ res' = [kind |-> "cc_ensemble_confidence_boost",
               confidence |-> cc_ensemble_confidence_boost(
                   inp.base_confidence, inp.agreement_rate, inp.n_models)]
    /\ UNCHANGED <<is_loaded, ensemble, predictor, call, ret, inp>>

CallHighConfidence ==
    /\ res = None
    /\ inp.n_models = 5
    /\ res' = [kind |-> "high_confidence",
               confidence |-> high_confidence(
                   inp.base_confidence, inp.agreement_rate, inp.min_confidence)]
    /\ UNCHANGED <<is_loaded, ensemble, predictor, call, ret, inp>>

CallCCHighConfidence ==
    /\ res = None
    /\ inp.n_models = 5
    /\ res' = [kind |-> "cc_high_confidence",
               confidence |-> cc_high_confidence(
                   inp.base_confidence, inp.agreement_rate, inp.min_confidence)]
    /\ UNCHANGED <<is_loaded, ensemble, predictor, call, ret, inp>>

CallTestBoostedConfidence ==
    /\ res = None
    /\ inp.n_models = 5
    /\ inp.min_confidence = DefaultMinConfidence
    /\ res' = [kind |-> "test_boosted_confidence",
               confidence |-> test_boosted_confidence(inp.base_confidence, inp.agreement_rate)]
    /\ UNCHANGED <<is_loaded, ensemble, predictor, call, ret, inp>>

NextCalib ==
    \/ CallMultiplicativeBoost
    \/ CallAdditiveBoost
    \/ CallHighConfidence
    \/ CallCCHighConfidence
    \/ CallTestBoostedConfidence

SpecCalib == InitCalib /\ [][NextCalib]_vars

------------------------------------------------------------------------------
(* EnsemblePredictor.predict: the aggregator.                              *)

Classes == 0..2

\* The triple with components f(0), f(1), f(2).
Triple(f(_)) == (0 :> f(0)) @@ (1 :> f(1)) @@ (2 :> f(2))

\* The probability triples over denominator den.
ProbTriples(den) ==
    {[c \in Classes |-> R(t[c], den)] :
        t \in {u \in [Classes -> 0..den] : u[0] + u[1] + u[2] = den}}

Uniform == [c \in Classes |-> R(1, 3)]
BaseProbs == ProbTriples(2) \cup {Uniform}
MetaProbs == ProbTriples(3)
Deltas == {RInt(-1), RInt(2)}

\* What a base predictor and the meta predictor return for one window.  The
\* aggregator never mixes probabilities and deltas, so a base predictor's
\* sample delta is tied to its triple (2 * P(BUY) - P(SELL)) to keep the set
\* small; the meta predictor's delta is free.
BaseOutputs ==
    {[kind |-> "ok", probs |-> p, delta |-> RSub(RMul(RInt(2), p[2]), p[0])] :
        p \in BaseProbs}
MetaOutputs == [kind : {"ok"}, probs : MetaProbs, delta : Deltas]

Raise(e) == [kind |-> "raise", error |-> e]

\* np.mean(xs, axis=0) and np.average(xs, axis=0, weights=w), one component.
np_mean(xs) == RDivInt(RSum(xs), Len(xs))
\* Slips of the weighted mean: only the first output counts, the weights are
\* ignored, the weighted sum is not divided by the sum of the weights.
np_average_first(xs, w) == xs[1]
np_average_unweighted(xs, w) == RDivInt(RSum(xs), Len(xs))
np_average_unnormalised(xs, w) == RSum([i \in 1..Len(xs) |-> RMul(w[i], xs[i])])
np_average(xs, w) == RDiv(RSum([i \in 1..Len(xs) |-> RMul(w[i], xs[i])]), RSum(w))

\* An argmax that returns the last index holding the maximum.
np_argmax_last(p) ==
    CHOOSE c \in Classes :
        /\ \A d \in Classes : RLe(p[d], p[c])
        /\ \A d \in Classes : d > c => RLt(p[d], p[c])

\* np.argmax: the first index holding the maximum; np.max.
np_argmax(p) ==
    CHOOSE c \in Classes :
        /\ \A d \in Classes : RLe(p[d], p[c])
        /\ \A d \in Classes : d < c => RLt(p[d], p[c])
np_max(p) == p[np_argmax(p)]

\* The combination with the stacking result counted twice.
Combine_stack_heavy(avg, weighted, stacked) ==
    RDivInt(RAdd(RAdd(RAdd(avg, weighted), stacked), stacked), 4)

\* The combination with the stacking result subtracted.
Combine_negated_stack(avg, weighted, stacked) ==
    RDivInt(RSub(RAdd(avg, weighted), stacked), 3)

\* (avg + weighted + stacked) / 3, one component.
Combine(avg, weighted, stacked) == RDivInt(RAdd(RAdd(avg, weighted), stacked), 3)

\* The three aggregates and the final combination (model.py lines 159-177 and
\* ensemble_model.py lines 231-249 are the same statements).
Aggregates(base, meta, model_weights) ==
    LET n == Len(base)
        base_actions == [i \in 1..n |-> base[i].probs]
        base_deltas == [i \in 1..n |-> base[i].delta]
        avg_action == Triple(LAMBDA c : np_mean([i \in 1..n |-> base_actions[i][c]]))
        avg_delta == np_mean(base_deltas)
        weighted_action ==
            IF model_weights # None
            THEN Triple(LAMBDA c :
                    np_average([i \in 1..n |-> base_actions[i][c]], model_weights.w))
            ELSE avg_action
        weighted_delta ==
            IF model_weights # None
            THEN np_average(base_deltas, model_weights.w)
            ELSE avg_delta
        stacked_action == meta.probs
        stacked_delta == meta.delta
        final_action ==
            Triple(LAMBDA c : Combine(avg_action[c], weighted_action[c], stacked_action[c]))
        final_delta == Combine(avg_delta, weighted_delta, stacked_delta)
    IN  [avg_action |-> avg_action, avg_delta |-> avg_delta,
         weighted_action |-> weighted_action, weighted_delta |-> weighted_delta,
         stacked_action |-> stacked_action, stacked_delta |-> stacked_delta,
         final_action |-> final_action, final_delta |-> final_delta]

\* The failures of one predict call: a predictor that raises, no base output
\* to concatenate, a weight vector np.average rejects, no meta predictor, or
\* a meta predictor built for another number of base predictors.
PredictFailure(ens, env) ==
    LET n == Len(ens.base_models)
    IN  IF \E i \in 1..n : env.base[i].kind = "raise" THEN "base predictor failed"
        ELSE IF ens.model_weights # None /\ Len(ens.model_weights.w) # n
            THEN "weights do not match the base predictors"
        ELSE IF ens.model_weights # None /\ RSum(ens.model_weights.w).n = 0
            THEN "weights sum to zero"
        ELSE IF n = 0 THEN "need at least one array to concatenate"
        ELSE IF ens.meta_model = None THEN "NoneType has no attribute predict"
        ELSE IF ens.meta_model.n_base # n THEN "meta predictor input shape mismatch"
        ELSE IF env.meta.kind = "raise" THEN "meta predictor failed"
        ELSE "no"

\* np.concatenate(base_predictions, axis=1) over the first n base outputs,
\* each np.concatenate([cls_pred, reg_pred], axis=1).
RECURSIVE MetaFeatures(_, _)
MetaFeatures(base, n) ==
    IF n = 0 THEN <<>>
    ELSE MetaFeatures(base, n - 1)
            \o <<base[n].probs[0], base[n].probs[1], base[n].probs[2], base[n].delta>>

\* A slip in which the meta predictor is asked before the base loop has ended.
PredictCalls_meta_first(ens, env) ==
    LET n == Len(ens.base_models)
    IN  <<[op |-> "meta.predict", features |-> MetaFeatures(env.base, n - 1)]>>
          \o [i \in 1..n |-> [op |-> "base.predict", model |-> ens.base_models[i]]]

\* The predictor invocations of one predict call, in the order the code makes
\* them: the base loop up to the first predictor that raises, then, if the
\* aggregation got as far as line 173, the meta predictor on the features.
PredictCalls(ens, env) ==
    LET n == Len(ens.base_models)
        bad == {i \in 1..n : env.base[i].kind = "raise"}
        last == IF bad = {} THEN n ELSE CHOOSE i \in bad : \A j \in bad : i <= j
        base_calls == [i \in 1..last |-> [op |-> "base.predict", model |-> ens.base_models[i]]]
        weights_ok ==
            \/ ens.model_weights = None
            \/ Len(ens.model_weights.w) = n /\ RSum(ens.model_weights.w).n # 0
    IN  IF bad = {} /\ weights_ok /\ n > 0 /\ ens.meta_model # None
        THEN base_calls \o <<[op |-> "meta.predict", features |-> MetaFeatures(env.base, n)]>>
        ELSE base_calls

\* model.py EnsemblePredictor.predict: (final_action, final_delta, details).
EnsemblePredictor_predict(ens, env) ==
    IF PredictFailure(ens, env) # "no" THEN Raise(PredictFailure(ens, env))
    ELSE LET a == Aggregates(env.base, env.meta, ens.model_weights)
         IN  [kind |-> "ok",
              final_action |-> a.final_action,
              final_delta |-> a.final_delta,
              details |-> [bagging |-> a.avg_action,
                           boosting |-> a.weighted_action,
                           stacking |-> a.stacked_action]]

\* models/ensemble_model.py EnsemblePredictor.predict: the details carry
\* (probabilities, delta) pairs.
em_predict(ens, env) ==
    IF PredictFailure(ens, env) # "no" THEN Raise(PredictFailure(ens, env))
    ELSE LET a == Aggregates(env.base, env.meta, ens.model_weights)
         IN  [kind |-> "ok",
              final_action |-> a.final_action,
              final_delta |-> a.final_delta,
              details |-> [bagging |-> <<a.avg_action, a.avg_delta>>,
                           boosting |-> <<a.weighted_action, a.weighted_delta>>,
                           stacking |-> <<a.stacked_action, a.stacked_delta>>]]

------------------------------------------------------------------------------
(* HighConfidencePredictor.predict_ensemble_high_confidence (model.py),    *)
(* for the one sample HFTModel.predict passes.                             *)

\* The agreement counted against the first method instead of the final class.
AgreementRate_first(predictions, final_pred) ==
    R(Cardinality({i \in 1..Len(predictions) : predictions[i] = predictions[1]}),
      Len(predictions))

\* agreement_count / len(predictions).
AgreementRate(predictions, final_pred) ==
    LET agreement_count ==
            Cardinality({i \in 1..Len(predictions) : predictions[i] = final_pred})
    IN  R(agreement_count, Len(predictions))

predict_ensemble_high_confidence(ep, min_confidence) ==
    LET probs == ep.final_action
        delta == ep.final_delta
        bagging_pred == np_argmax(ep.details.bagging)
        boosting_pred == np_argmax(ep.details.boosting)
        stacking_pred == np_argmax(ep.details.stacking)
        predictions == <<bagging_pred, boosting_pred, stacking_pred>>
        final_pred == np_argmax(probs)
        agreement_rate == AgreementRate(predictions, final_pred)
        base_confidence == np_max(probs)
    IN  [class |-> final_pred,
         confidence |-> high_confidence(base_confidence, agreement_rate, min_confidence),
         delta |-> delta,
         agreement_rate |-> agreement_rate,
         ensemble_details |-> [bagging |-> bagging_pred,
                               boosting |-> boosting_pred,
                               stacking |-> stacking_pred]]

\* models/confidence_calibration.py: sum([p == all_preds[0] for p in
\* all_preds]) / len(all_preds).
cc_AgreementRate(all_preds) ==
    R(Cardinality({i \in 1..Len(all_preds) : all_preds[i] = all_preds[1]}), Len(all_preds))

\* models/confidence_calibration.py predict_ensemble_high_confidence on the
\* result of models/ensemble_model.py predict, without the confidence.
\* Temperature scaling maps each probability p to (p + 1e-10)^(1/1.2) over
\* their sum, which is increasing in p, so the argmax of the scaled
\* probabilities is the argmax of the final probabilities; the scaled values
\* themselves are irrational, and the confidence computed from them is
\* cc_high_confidence of a given base confidence.
cc_predict_ensemble_high_confidence(ep) ==
    LET bagging_pred == np_argmax(ep.details.bagging[1])
        boosting_pred == np_argmax(ep.details.boosting[1])
        stacking_pred == np_argmax(ep.details.stacking[1])
        all_preds == <<bagging_pred, boosting_pred, stacking_pred>>
    IN  [class |-> np_argmax(ep.final_action),
         agreement_rate |-> cc_AgreementRate(all_preds),
         ensemble_details |-> [bagging |-> bagging_pred,
                               boosting |-> boosting_pred,
                               stacking |-> stacking_pred]]

------------------------------------------------------------------------------
(* The aggregator under test: Init draws the loaded ensemble and what its  *)
(* predictors return for one window, each action is one call.              *)

\* The weight vectors tried for n base predictors: none, uniform, and
\* weight_i proportional to i.
WeightChoices(n) ==
    {None,
     [kind |-> "ndarray", w |-> [i \in 1..n |-> R(1, n)]],
     [kind |-> "ndarray", w |-> [i \in 1..n |-> R(2 * i, n * (n + 1))]]}

LoadedEnsemble(n, weights) ==
    [kind |-> "EnsemblePredictor",
     base_models |-> [i \in 1..n |-> i - 1],
     meta_model |-> [kind |-> "Model", n_base |-> n],
     model_weights |-> weights]

\* A pickled weight vector need not be normalized: the weights 1, 2, .., n.
AggWeightChoices(n) == WeightChoices(n) \cup {[kind |-> "ndarray", w |-> [i \in 1..n |-> RInt(i)]]}

\* Calls that fail: the last base predictor or the meta predictor raises, no
\* meta predictor is loaded, or it was built for one more base predictor.
AggFailureInputs ==
    LET b == CHOOSE o \in BaseOutputs : o.probs = Uniform
        m == CHOOSE o \in MetaOutputs : o.probs[1] = RInt(1) /\ o.delta = RInt(2)
        ok(n) == [base |-> [i \in 1..n |-> b], meta |-> m]
    IN  UNION {
          {[ens |-> LoadedEnsemble(n, None),
            env |-> [base |-> [i \in 1..n |-> IF i = n THEN Raise("base predictor failed") ELSE b],
                     meta |-> m],
            min_confidence |-> DefaultMinConfidence],
           [ens |-> LoadedEnsemble(n, None),
            env |-> [base |-> [i \in 1..n |-> b], meta |-> Raise("meta predictor failed")],
            min_confidence |-> DefaultMinConfidence],
           [ens |-> [LoadedEnsemble(n, None) EXCEPT !.meta_model = None],
            env |-> ok(n), min_confidence |-> DefaultMinConfidence],
           [ens |-> [LoadedEnsemble(n, None) EXCEPT !.meta_model.n_base = n + 1],
            env |-> ok(n), min_confidence |-> DefaultMinConfidence]} : n \in 1..MaxBase}

AggInputs ==
    UNION {[ens : {LoadedEnsemble(n, w) : w \in AggWeightChoices(n)},
            env : [base : [1..n -> BaseOutputs], meta : MetaOutputs],
            min_confidence : {DefaultMinConfidence}] : n \in 1..MaxBase}
    \cup AggFailureInputs

InitAgg ==
    /\ IdleObject
    /\ inp \in AggInputs
    /\ res = None

CallEnsemblePredict ==
    /\ res = None
    /\ res' = [kind |-> "predict", out |-> EnsemblePredictor_predict(inp.ens, inp.env),
               calls |-> PredictCalls(inp.ens, inp.env)]
    /\ UNCHANGED <<is_loaded, ensemble, predictor, call, ret, inp>>

CallEmPredict ==
    /\ res = None
    /\ res' = [kind |-> "em_predict", out |-> em_predict(inp.ens, inp.env),
               calls |-> PredictCalls(inp.ens, inp.env)]
    /\ UNCHANGED <<is_loaded, ensemble, predictor, call, ret, inp>>

CallPredictEnsembleHighConfidence ==
    /\ res = None
    /\ LET ep == EnsemblePredictor_predict(inp.ens, inp.env)
       IN  /\ ep.kind = "ok"
           /\ res' = [kind |-> "predict_ensemble_high_confidence",
                      out |-> predict_ensemble_high_confidence(ep, inp.min_confidence)]
    /\ UNCHANGED <<is_loaded, ensemble, predictor, call, ret, inp>>

------------------------------------------------------------------------------
(* EnsemblePredictor.calculate_model_weights (models/ensemble_model.py).   *)

\* What numpy's float division gives for 0/0 and for x/0: nan and inf, with a
\* RuntimeWarning and no exception.
NaN == [n |-> 0, d |-> 0]
Inf == [n |-> 1, d |-> 0]
np_divide(x, y) == IF y.n # 0 THEN RDiv(x, y) ELSE IF x.n = 0 THEN NaN ELSE Inf

\* calculate_model_weights on the object ens.  hits[i][s] is
\* (pred_classes == y_cls)[s] for base predictor i: whether the argmax of its
\* output on validation sample s is the label of s.
calculate_model_weights(ens, hits) ==
    LET n == Len(ens.base_models)
        accuracy(i) == R(Cardinality({k \in DOMAIN hits[i] : hits[i][k]}), Len(hits[i]))
        weights == [i \in 1..n |-> accuracy(i)]
    IN  [ens EXCEPT !.model_weights =
            [kind |-> "ndarray", w |-> [i \in 1..n |-> np_divide(weights[i], RSum(weights))]]]

\* A trained ensemble without weights and a labeled validation set.
InitWeights ==
    /\ is_loaded = FALSE
    /\ predictor = None
    /\ call = None
    /\ ret = None
    /\ res = None
    /\ \E n \in 1..MaxBase, v \in 1..MaxVal :
          /\ ensemble = LoadedEnsemble(n, None)
          /\ inp \in [hits : [1..n -> [1..v -> BOOLEAN]]]

CallCalculateModelWeights ==
    /\ res = None
    /\ ensemble' = calculate_model_weights(ensemble, inp.hits)
    /\ res' = [kind |-> "calculate_model_weights"]
    /\ UNCHANGED <<is_loaded, predictor, call, ret, inp>>

NextWeights == CallCalculateModelWeights

SpecWeights == InitWeights /\ [][NextWeights]_vars

------------------------------------------------------------------------------
(* HFTModel: load_ensemble, predict, predict_batch, get_model_info.        *)

window_seconds == 128
\* A map that labels two classes alike.
action_map_merged == [c \in Classes |-> IF c = 0 THEN "SELL" ELSE "HOLD"]
action_map == [c \in Classes |-> IF c = 0 THEN "SELL" ELSE IF c = 1 THEN "HOLD" ELSE "BUY"]

Symbols == {"RELIANCE", "TCS"}

\* The sets of base artifact indices a model directory may hold: the
\* contiguous sets 0..k-1, and those with one more artifact above a gap at k.
ArtifactSets ==
    {0..(k - 1) : k \in 0..MaxBase} \cup {(0..(k - 1)) \cup {k + 1} : k \in 0..(MaxBase - 1)}

\* A model directory at the time it is loaded: which base_model_{i}.keras
\* exist, the meta_model.keras (built for n_base base predictors) and the
\* model_weights.pkl if present, and the artifact, if any, whose loading
\* raises.
NoCorrupt == [kind |-> "none", i |-> 0]
Directories ==
    {dir \in
        [base : ArtifactSets,
         meta : {None} \cup {[kind |-> "Model", n_base |-> k] : k \in 1..MaxBase},
         weights : UNION {WeightChoices(k) : k \in 1..MaxBase},
         corrupt : {NoCorrupt, [kind |-> "meta", i |-> 0], [kind |-> "weights", i |-> 0]}
                     \cup {[kind |-> "base", i |-> k] : k \in 0..MaxBase}] :
        /\ dir.corrupt.kind = "base" => dir.corrupt.i \in dir.base
        /\ dir.corrupt.kind = "meta" => dir.meta # None
        /\ dir.corrupt.kind = "weights" => dir.weights # None}

\* EnsemblePredictor(): a fresh object.
NewEnsemble ==
    [kind |-> "EnsemblePredictor", base_models |-> <<>>, meta_model |-> None,
     model_weights |-> None]

\* The number of base artifacts the while loop of load visits: the smallest
\* index with no artifact.
\* A loader that takes every artifact the directory holds, gaps or not.
FirstMissing_all(base, i) == Cardinality(base)

RECURSIVE FirstMissing(_, _)
FirstMissing(base, i) == IF i \in base THEN FirstMissing(base, i + 1) ELSE i

\* EnsemblePredictor.load(path) on the object ens: the fields afterwards and
\* whether an exception left the method.
EnsemblePredictor_load(ens, dir) ==
    LET k == FirstMissing(dir.base, 0)
        bad_base == dir.corrupt.kind = "base" /\ dir.corrupt.i < k
        loaded == IF bad_base THEN dir.corrupt.i ELSE k
        base_models == [i \in 1..loaded |-> i - 1]
        bad_meta == ~bad_base /\ dir.meta # None /\ dir.corrupt.kind = "meta"
        meta_model ==
            IF ~bad_base /\ ~bad_meta /\ dir.meta # None THEN dir.meta ELSE ens.meta_model
        bad_weights ==
            ~bad_base /\ ~bad_meta /\ dir.weights # None /\ dir.corrupt.kind = "weights"
        model_weights ==
            IF ~bad_base /\ ~bad_meta /\ ~bad_weights /\ dir.weights # None
            THEN dir.weights
            ELSE ens.model_weights
    IN  [ens |-> [kind |-> "EnsemblePredictor", base_models |-> base_models,
                  meta_model |-> meta_model, model_weights |-> model_weights],
         raised |-> bad_base \/ bad_meta \/ bad_weights]

\* EnsemblePredictor.load called again and again on one object, as a caller
\* of the class may do; the call returns or lets the exception through.
InitLoad ==
    /\ is_loaded = FALSE
    /\ predictor = None
    /\ call = None
    /\ ret = None
    /\ inp = None
    /\ res = None
    /\ ensemble = NewEnsemble

CallEnsembleLoad(dir) ==
    /\ LET l == EnsemblePredictor_load(ensemble, dir)
       IN  /\ ensemble' = l.ens
           /\ res' = [kind |-> "load", path |-> dir, raised |-> l.raised]
    /\ UNCHANGED <<is_loaded, predictor, call, ret, inp>>

NextLoad == \E dir \in Directories : CallEnsembleLoad(dir)

SpecLoad == InitLoad /\ [][NextLoad]_vars

\* load_ensemble without the assignment of the except branch.
load_ensemble_sticky(dir) ==
    /\ call = None /\ ret = None /\ res = None
    /\ LET l == EnsemblePredictor_load(NewEnsemble, dir)
       IN  /\ ensemble' = l.ens
           /\ IF l.raised
              THEN UNCHANGED <<is_loaded, predictor>>
              ELSE /\ predictor' = [kind |-> "HighConfidencePredictor", temperature |-> R(3, 2)]
                   /\ is_loaded' = TRUE
    /\ ret' = [op |-> "load_ensemble", args |-> [model_path |-> dir],
               out |-> [kind |-> "return", value |-> None]]
    /\ UNCHANGED <<call, inp, res>>

\* HFTModel.load_ensemble(model_path).
load_ensemble(dir) ==
    /\ call = None /\ ret = None /\ res = None
    /\ LET l == EnsemblePredictor_load(NewEnsemble, dir)
       IN  /\ ensemble' = l.ens
           /\ IF l.raised
              THEN /\ is_loaded' = FALSE
                   /\ UNCHANGED predictor
              ELSE /\ predictor' = [kind |-> "HighConfidencePredictor", temperature |-> R(3, 2)]
                   /\ is_loaded' = TRUE
    /\ ret' = [op |-> "load_ensemble", args |-> [model_path |-> dir],
               out |-> [kind |-> "return", value |-> None]]
    /\ UNCHANGED <<call, inp, res>>

\* What the data file holds for a symbol when predict reads it, and what the
\* loaded predictors return (or raise) on that symbol's window.
DataChoices ==
    {[csv |-> "missing", rows |-> 0, datetime |-> "none", price |-> 0]} \cup
    {[csv |-> "ok", rows |-> r, datetime |-> "t", price |-> 100] :
        r \in {window_seconds - 1, window_seconds, window_seconds + 1}}

StubBase == {o \in BaseOutputs : o.probs[0] = RInt(1) \/ o.probs = Uniform}
StubMeta == {o \in MetaOutputs : (o.probs[2] = RInt(1) \/ o.probs = Uniform) /\ o.delta = RInt(2)}

\* The answers of n base predictors and the meta predictor: every combination
\* of outputs, the meta predictor raising, or the first base predictor raising.
EnvChoices(n) ==
    [base : [1..n -> StubBase], meta : StubMeta \cup {Raise("meta predictor failed")}]
    \cup {[base |-> [i \in 1..n |-> Raise("base predictor failed")], meta |-> m] :
            m \in IF n = 0 THEN {} ELSE StubMeta}

\* No predictor is invoked: predict raises before inference.
NoEnv == [base |-> <<>>, meta |-> Raise("not invoked")]

\* HFTModel.predict from line 390 on: inference on the window and the
\* decision built from its result.
HFTModel_infer(ens, symbol, data, env) ==
    LET ep == EnsemblePredictor_predict(ens, env)
    IN       IF ep.kind = "raise" THEN Raise(<<ep.error>>)
             ELSE LET result == predict_ensemble_high_confidence(ep, R(3, 4))
                  IN  [kind |-> "return",
                       value |->
                         [symbol |-> symbol,
                          action |-> action_map[result.class],
                          confidence |-> RMul(result.confidence, RInt(100)),
                          delta |-> result.delta,
                          ensemble_agreement |-> (result.agreement_rate = RInt(1)),
                          agreement_rate |-> RMul(result.agreement_rate, RInt(100)),
                          details |->
                            [bagging |-> action_map[result.ensemble_details.bagging],
                             boosting |-> action_map[result.ensemble_details.boosting],
                             stacking |-> action_map[result.ensemble_details.stacking],
                             timestamp |-> data.datetime,
                             price |-> data.price]]]

\* Slips of the checks of predict: the data file is read before the loaded
\* flag is tested; a window of exactly window_seconds rows is rejected.
HFTModel_predict_reads_first(loaded, ens, symbol, data, env) ==
    IF data.csv = "missing" THEN Raise(<<"No such file or directory">>)
    ELSE IF ~loaded THEN Raise(<<"Model not loaded. Call load_ensemble() first.">>)
    ELSE IF data.rows < window_seconds THEN Raise(<<"Insufficient data for ", symbol>>)
    ELSE HFTModel_infer(ens, symbol, data, env)
HFTModel_predict_off_by_one(loaded, ens, symbol, data, env) ==
    IF ~loaded THEN Raise(<<"Model not loaded. Call load_ensemble() first.">>)
    ELSE IF data.csv = "missing" THEN Raise(<<"No such file or directory">>)
    ELSE IF data.rows <= window_seconds THEN Raise(<<"Insufficient data for ", symbol>>)
    ELSE HFTModel_infer(ens, symbol, data, env)

\* HFTModel.predict(symbol) in the state (loaded, ens): the decision it
\* returns or the exception it raises.
HFTModel_predict(loaded, ens, symbol, data, env) ==
    IF ~loaded THEN Raise(<<"Model not loaded. Call load_ensemble() first.">>)
    ELSE IF data.csv = "missing" THEN Raise(<<"No such file or directory">>)
    ELSE IF data.rows < window_seconds THEN Raise(<<"Insufficient data for ", symbol>>)
    ELSE HFTModel_infer(ens, symbol, data, env)

\* What that predict call touches, in order: the data file, the rows of the
\* time-sorted symbol frame taken as the window (df_sym.tail), and the
\* predictors invoked on it.
HFTModel_predict_calls(loaded, ens, data, env) ==
    IF ~loaded THEN <<>>
    ELSE IF data.csv = "missing" \/ data.rows < window_seconds THEN <<[op |-> "read_csv"]>>
    ELSE <<[op |-> "read_csv"],
           [op |-> "tail", first |-> data.rows - window_seconds + 1, last |-> data.rows]>>
            \o PredictCalls(ens, env)

\* One HFTModel.predict call on a loaded model with enough data, on the
\* ensemble and predictor outputs under test.
CallHFTModelPredict ==
    /\ res = None
    /\ \E symbol \in Symbols :
          res' = [kind |-> "HFTModel.predict",
                  out |-> HFTModel_predict(TRUE, inp.ens, symbol,
                             [csv |-> "ok", rows |-> window_seconds, datetime |-> "t",
                              price |-> 100], inp.env)]
    /\ UNCHANGED <<is_loaded, ensemble, predictor, call, ret, inp>>

CallCCPredictEnsembleHighConfidence ==
    /\ res = None
    /\ LET ep == em_predict(inp.ens, inp.env)
       IN  /\ ep.kind = "ok"
           /\ res' = [kind |-> "cc_predict_ensemble_high_confidence",
                      out |-> cc_predict_ensemble_high_confidence(ep)]
    /\ UNCHANGED <<is_loaded, ensemble, predictor, call, ret, inp>>

NextAgg ==
    \/ CallEnsemblePredict
    \/ CallEmPredict
    \/ CallPredictEnsembleHighConfidence
    \/ CallHFTModelPredict
    \/ CallCCPredictEnsembleHighConfidence

SpecAgg == InitAgg /\ [][NextAgg]_vars

\* The answers the predictors can give in a predict call that reads data:
\* they are invoked only when the call gets past its checks.
EnvFor(data) ==
    IF is_loaded /\ data.csv = "ok" /\ data.rows >= window_seconds
    THEN EnvChoices(Len(ensemble.base_models))
    ELSE {NoEnv}

predict(symbol, data, env) ==
    /\ call = None /\ ret = None /\ res = None
    /\ ret' = [op |-> "predict", args |-> [symbol |-> symbol, data |-> data],
               out |-> HFTModel_predict(is_loaded, ensemble, symbol, data, env),
               calls |-> HFTModel_predict_calls(is_loaded, ensemble, data, env)]
    /\ UNCHANGED <<is_loaded, ensemble, predictor, call, inp, res>>

get_model_info ==
    /\ call = None /\ ret = None /\ res = None
    /\ ret' = [op |-> "get_model_info", args |-> None,
               out |-> [kind |-> "return",
                        value |->
                          IF ~is_loaded THEN [status |-> "not_loaded"]
                          ELSE [status |-> "loaded",
                                n_base_models |-> Len(ensemble.base_models),
                                has_meta_model |-> (ensemble.meta_model # None),
                                architecture |-> "Bidirectional LSTM + CNN + Dense",
                                window_size |-> 128,
                                n_indicators |-> 10,
                                confidence_target |-> "95%",
                                ensemble_agreement |-> "100%"]]]
    /\ UNCHANGED <<is_loaded, ensemble, predictor, call, inp, res>>

\* The symbol lists handed to predict_batch: no symbol, one, or two (the
\* same symbol twice included).
SymbolLists == {<<>>} \cup {<<s>> : s \in Symbols} \cup {<<s, t>> : s, t \in Symbols}

\* A slip of the except branch: the entry carries the error without the symbol.
BatchEntry_anonymous(symbol, out) ==
    IF out.kind = "raise" THEN [error |-> out.error] ELSE out.value

\* The entry predict_batch appends for one symbol: the decision, or
\* {symbol, error} when predict raised.
BatchEntry(symbol, out) ==
    IF out.kind = "raise" THEN [symbol |-> symbol, error |-> out.error] ELSE out.value

\* predict_batch(symbols): results = [].
predict_batch_begin(symbols) ==
    /\ call = None /\ ret = None /\ res = None
    /\ call' = [kind |-> "predict_batch", symbols |-> symbols, results |-> <<>>,
                outcomes |-> <<>>]
    /\ UNCHANGED <<is_loaded, ensemble, predictor, ret, inp, res>>

\* One iteration of the loop: predict for the next symbol inside try/except.
\* outcomes records what that predict call returned or raised.
predict_batch_step(data, env) ==
    /\ call.kind = "predict_batch"
    /\ Len(call.results) < Len(call.symbols)
    /\ LET symbol == call.symbols[Len(call.results) + 1]
           out == HFTModel_predict(is_loaded, ensemble, symbol, data, env)
       IN  call' = [call EXCEPT !.results = Append(@, BatchEntry(symbol, out)),
                                !.outcomes = Append(@, out)]
    /\ UNCHANGED <<is_loaded, ensemble, predictor, ret, inp, res>>

\* return results.
predict_batch_return ==
    /\ call.kind = "predict_batch"
    /\ Len(call.results) = Len(call.symbols)
    /\ ret' = [op |-> "predict_batch",
               args |-> [symbols |-> call.symbols, outcomes |-> call.outcomes],
               out |-> [kind |-> "return", value |-> call.results]]
    /\ call' = None
    /\ UNCHANGED <<is_loaded, ensemble, predictor, inp, res>>

\* The caller takes what the call returned or raised.
TakeResult ==
    /\ ret # None
    /\ ret' = None
    /\ UNCHANGED <<is_loaded, ensemble, predictor, call, inp, res>>

Init ==
    /\ IdleObject
    /\ inp = None
    /\ res = None

Next ==
    \/ \E dir \in Directories : load_ensemble(dir)
    \/ \E symbol \in Symbols, data \in DataChoices :
          \E env \in EnvFor(data) : predict(symbol, data, env)
    \/ get_model_info
    \/ \E symbols \in SymbolLists : predict_batch_begin(symbols)
    \/ \E data \in DataChoices : \E env \in EnvFor(data) : predict_batch_step(data, env)
    \/ predict_batch_return
    \/ TakeResult

Spec == Init /\ [][Next]_vars

------------------------------------------------------------------------------
(* Properties of the confidence calibrator (SpecCalib).                    *)

\* The value the multiplicative policy has before its cap, as the
\* specification writes it.
MultiplicativeUncapped(base_confidence, agreement_rate) ==
    LET f1 == IF agreement_rate = RInt(1) THEN R(8, 5) ELSE RInt(1)
        f2 == IF RLe(R(4, 5), agreement_rate) THEN R(11, 10) ELSE RInt(1)
        term == RAdd(RInt(1), RMul(RSub(agreement_rate, R(1, 2)), R(2, 5)))
    IN  RMul(RMul(RMul(base_confidence, term), f1), f2)

\* The value the additive policy has before its cap.
AdditiveUncapped(base_confidence, agreement_rate, n_models) ==
    RAdd(RAdd(base_confidence, RMul(agreement_rate, R(3, 10))),
         IF n_models >= 1 THEN R(1, 10) ELSE R(n_models, 10))

FloorCondition(pre_floor, agreement_rate, min_confidence) ==
    RLe(R(67, 100), agreement_rate) /\ RLt(pre_floor, min_confidence)

\* C2 (as specified): the confidence predict_ensemble_high_confidence reports
\* never exceeds the policy cap, 0.95 in model.py and 0.99 in
\* models/confidence_calibration.py, for agreement rates 0, 1/3, 2/3, 1 and
\* every min_confidence in [0, 1], floored results included.
C2_ConfidenceWithinCap ==
    inp.agreement_rate \in Thirds =>
        /\ res.kind = "high_confidence" => RLe(res.confidence, R(19, 20))
        /\ res.kind = "cc_high_confidence" => RLe(res.confidence, R(99, 100))

\* C3 (as specified): in both files the floor replaces the boost policy's
\* output by min_confidence + 0.05 exactly when agreement_rate >= 0.67 and
\* that output is below min_confidence; otherwise the reported confidence is
\* the boost policy's output unchanged.
C3_FloorOnPolicyOutput ==
    LET a == inp.agreement_rate
        mc == inp.min_confidence
        policy ==
            IF res.kind = "high_confidence"
            THEN ensemble_confidence_boost(inp.base_confidence, a, 5)
            ELSE cc_ensemble_confidence_boost(inp.base_confidence, a, 5)
    IN  res.kind \in {"high_confidence", "cc_high_confidence"} =>
            res.confidence =
                IF FloorCondition(policy, a, mc) THEN RAdd(mc, R(1, 20)) ELSE policy

\* C3 (amended): the floor replaces the pre-floor confidence by
\* min_confidence + 0.05 exactly when agreement_rate >= 0.67 and the pre-floor
\* confidence is below min_confidence, and otherwise reports it unchanged; the
\* pre-floor confidence is the boost policy's output, except that
\* models/confidence_calibration.py at agreement_rate = 1.0 first replaces it
\* by min(output * 1.2, 0.95).  At agreement_rate = 1/3 the floor never
\* triggers and the policy's output is reported.
C3_FloorOnPreFloorValue ==
    LET a == inp.agreement_rate
        mc == inp.min_confidence
        policy ==
            IF res.kind = "high_confidence"
            THEN ensemble_confidence_boost(inp.base_confidence, a, 5)
            ELSE cc_ensemble_confidence_boost(inp.base_confidence, a, 5)
        pre ==
            IF res.kind = "cc_high_confidence" /\ a = RInt(1)
            THEN RMin(RMul(policy, R(6, 5)), R(19, 20))
            ELSE policy
    IN  res.kind \in {"high_confidence", "cc_high_confidence"} =>
            /\ res.confidence =
                   IF FloorCondition(pre, a, mc) THEN RAdd(mc, R(1, 20)) ELSE pre
            /\ a = R(1, 3) => res.confidence = policy

\* C3 witness: a call of model.py's predictor on which the floor was applied.
C3_Witness ==
    /\ res.kind = "high_confidence"
    /\ inp.agreement_rate = RInt(1)
    /\ RLt(ensemble_confidence_boost(inp.base_confidence, inp.agreement_rate, 5),
           inp.min_confidence)
    /\ res.confidence = RAdd(inp.min_confidence, R(1, 20))

\* C7: the multiplicative policy returns
\* min(0.95, base * (1 + (agreement - 0.5) * 0.4) * f1 * f2), f1 = 1.6 exactly
\* at agreement 1.0 and f2 = 1.1 exactly from agreement 0.8 on.
C7_MultiplicativeFormula ==
    res.kind = "ensemble_confidence_boost" =>
        LET u == MultiplicativeUncapped(inp.base_confidence, inp.agreement_rate)
        IN  res.confidence = IF RLt(R(19, 20), u) THEN R(19, 20) ELSE u

\* C7 witness: a call at agreement 0.8 exactly whose uncapped value exceeds 0.95.
C7_Witness ==
    /\ res.kind = "ensemble_confidence_boost"
    /\ inp.agreement_rate = R(4, 5)
    /\ RLt(R(19, 20), MultiplicativeUncapped(inp.base_confidence, inp.agreement_rate))
    /\ res.confidence = R(19, 20)

\* C8: the additive policy returns
\* min(0.99, base + agreement * 0.3 + min(n_models / 10, 0.1)).
C8_AdditiveFormula ==
    res.kind = "cc_ensemble_confidence_boost" =>
        LET u == AdditiveUncapped(inp.base_confidence, inp.agreement_rate, inp.n_models)
        IN  res.confidence = IF RLt(R(99, 100), u) THEN R(99, 100) ELSE u

\* C8 witness: a call with more than one model whose uncapped value exceeds 0.99.
C8_Witness ==
    /\ res.kind = "cc_ensemble_confidence_boost"
    /\ inp.n_models > 1
    /\ RLt(R(99, 100),
           AdditiveUncapped(inp.base_confidence, inp.agreement_rate, inp.n_models))
    /\ res.confidence = R(99, 100)

\* C9: under the multiplicative policy, for a fixed base confidence in [0, 1]
\* the boosted confidence does not decrease as the agreement rate goes
\* 1/3 -> 2/3 -> 1.
C9_BoostMonotoneInAgreement ==
    (res.kind = "ensemble_confidence_boost" /\ inp.agreement_rate \in Thirds \ {RInt(0)}) =>
        \A a2 \in Thirds :
            RLe(inp.agreement_rate, a2) =>
                RLe(res.confidence,
                    ensemble_confidence_boost(inp.base_confidence, a2, inp.n_models))

\* C9 witness: a call at agreement 1/3 after which the boost strictly grows
\* at 2/3 and again at 1.
C9_Witness ==
    /\ res.kind = "ensemble_confidence_boost"
    /\ inp.agreement_rate = R(1, 3)
    /\ RLt(res.confidence,
           ensemble_confidence_boost(inp.base_confidence, R(2, 3), inp.n_models))
    /\ RLt(ensemble_confidence_boost(inp.base_confidence, R(2, 3), inp.n_models),
           ensemble_confidence_boost(inp.base_confidence, RInt(1), inp.n_models))

\* C22 (as specified): the boosted confidence test_real_confidence.py
\* computes equals, for every raw confidence and agreement rate, what
\* ensemble_confidence_boost of model.py returns for them with n_models = 5.
C22_TestMatchesModel ==
    res.kind = "test_boosted_confidence" =>
        res.confidence = ensemble_confidence_boost(inp.base_confidence, inp.agreement_rate, 5)

\* C24: for the agreement rates the scorer produces, 0, 1/3, 2/3 and 1, the
\* floor is applied at 1 only; at 2/3, which is below 0.67, and at 0 and 1/3
\* the reported confidence is the boost output in both files, also when that
\* is below min_confidence.
C24_FloorOnlyWhenUnanimous ==
    (res.kind \in {"high_confidence", "cc_high_confidence"}
        /\ inp.agreement_rate \in Thirds /\ inp.agreement_rate # RInt(1)) =>
        res.confidence =
            IF res.kind = "high_confidence"
            THEN ensemble_confidence_boost(inp.base_confidence, inp.agreement_rate, 5)
            ELSE cc_ensemble_confidence_boost(inp.base_confidence, inp.agreement_rate, 5)

\* C24 witness: a model.py call at agreement 2/3 whose boost output is below
\* min_confidence and is reported as it is.
C24_Witness ==
    /\ res.kind = "high_confidence"
    /\ inp.agreement_rate = R(2, 3)
    /\ RLt(res.confidence, inp.min_confidence)
    /\ RLt(RInt(0), res.confidence)
    /\ res.confidence = ensemble_confidence_boost(inp.base_confidence, R(2, 3), 5)

\* C26 (as specified): in model.py with min_confidence 0.75 and the agreement
\* rate fixed, a higher base confidence never gives a lower reported
\* confidence, across the floor threshold too.
C26_MonotoneInBaseConfidence ==
    (res.kind = "high_confidence" /\ inp.min_confidence = DefaultMinConfidence) =>
        \A b \in BaseConfidences :
            RLe(b, inp.base_confidence) =>
                RLe(high_confidence(b, inp.agreement_rate, DefaultMinConfidence),
                    res.confidence)

\* C27 (as specified): in models/confidence_calibration.py, with the base
\* confidence and min_confidence fixed, the reported confidence does not
\* decrease as the agreement rate goes 1/3 -> 2/3 -> 1.
C27_CCMonotoneInAgreement ==
    (res.kind = "cc_high_confidence" /\ inp.agreement_rate = RInt(1)) =>
        /\ RLe(cc_high_confidence(inp.base_confidence, R(1, 3), inp.min_confidence),
               cc_high_confidence(inp.base_confidence, R(2, 3), inp.min_confidence))
        /\ RLe(cc_high_confidence(inp.base_confidence, R(2, 3), inp.min_confidence),
               res.confidence)

------------------------------------------------------------------------------
(* Properties of the aggregator and the agreement scorer (SpecAgg).        *)

RECURSIVE SumTo(_, _)
SumTo(f, n) == IF n = 0 THEN RInt(0) ELSE RAdd(SumTo(f, n - 1), f[n])

\* The aggregates of the call under test, recomputed from its arguments.
InpAggregates == Aggregates(inp.env.base, inp.env.meta, inp.ens.model_weights)

\* The boosting delta the specification prescribes: the weighted mean, or
\* the bagging delta when no weight vector is set.
ExpectedBoostingDelta ==
    LET n == Len(inp.env.base)
        w == inp.ens.model_weights
    IN  IF w = None
        THEN RDivInt(SumTo([i \in 1..n |-> inp.env.base[i].delta], n), n)
        ELSE RDiv(SumTo([i \in 1..n |-> RMul(w.w[i], inp.env.base[i].delta)], n),
                  SumTo(w.w, n))

\* C4 (as specified): whenever the floor overrides the computed confidence, the
\* result of predict_ensemble_high_confidence is marked as floored and keeps
\* the raw, pre-adjustment value.
C4_FlooredIsMarked ==
    res.kind = "predict_ensemble_high_confidence" =>
        LET raw == ensemble_confidence_boost(
                       np_max(InpAggregates.final_action), res.out.agreement_rate, 5)
        IN  FloorCondition(raw, res.out.agreement_rate, inp.min_confidence) =>
                /\ "floored" \in DOMAIN res.out
                /\ "raw_confidence" \in DOMAIN res.out

\* C6: in model.py agreement_rate is the number of the bagging, boosting and
\* stacking argmax classes equal to the argmax of the final probabilities,
\* over 3; it is one of 0, 1/3, 2/3, 1 and it is 1 exactly when all four
\* argmax classes are the same.
C6_AgreementRate ==
    res.kind = "predict_ensemble_high_confidence" =>
        LET bag == np_argmax(InpAggregates.avg_action)
            boost == np_argmax(InpAggregates.weighted_action)
            stack == np_argmax(InpAggregates.stacked_action)
            fin == np_argmax(InpAggregates.final_action)
            count == (IF bag = fin THEN 1 ELSE 0) + (IF boost = fin THEN 1 ELSE 0)
                        + (IF stack = fin THEN 1 ELSE 0)
        IN  /\ res.out.agreement_rate = R(count, 3)
            /\ res.out.agreement_rate \in Thirds
            /\ (res.out.agreement_rate = RInt(1)) <=>
                   (bag = boost /\ boost = stack /\ stack = fin)

\* C6 witness: a constructed disagreement, the three methods naming three
\* different classes, so that exactly one of them matches the final class.
C6_Witness ==
    /\ res.kind = "predict_ensemble_high_confidence"
    /\ res.out.agreement_rate = R(1, 3)
    /\ res.out.ensemble_details.bagging # res.out.ensemble_details.boosting
    /\ res.out.ensemble_details.boosting # res.out.ensemble_details.stacking
    /\ res.out.ensemble_details.bagging # res.out.ensemble_details.stacking

\* C10: EnsemblePredictor.predict (both files) computes the bagging
\* probabilities and delta as the arithmetic mean over all N base outputs, and
\* the final probabilities and delta as the arithmetic mean of the bagging,
\* boosting and stacking aggregates.
C10_PlainMeans ==
    (res.kind \in {"predict", "em_predict"} /\ res.out.kind = "ok") =>
        LET n == Len(inp.env.base)
            det == res.out.details
            bagging == IF res.kind = "predict" THEN det.bagging ELSE det.bagging[1]
            boosting == IF res.kind = "predict" THEN det.boosting ELSE det.boosting[1]
            stacking == IF res.kind = "predict" THEN det.stacking ELSE det.stacking[1]
            sum_delta == SumTo([i \in 1..n |-> inp.env.base[i].delta], n)
        IN  /\ \A c \in Classes :
                /\ RMul(bagging[c], RInt(n))
                     = SumTo([i \in 1..n |-> inp.env.base[i].probs[c]], n)
                /\ RMul(res.out.final_action[c], RInt(3))
                     = RAdd(bagging[c], RAdd(boosting[c], stacking[c]))
            /\ res.kind = "em_predict" =>
                /\ RMul(det.bagging[2], RInt(n)) = sum_delta
                /\ RMul(res.out.final_delta, RInt(3))
                     = RAdd(det.bagging[2], RAdd(det.boosting[2], det.stacking[2]))
            /\ RMul(res.out.final_delta, RInt(3))
                 = RAdd(RDivInt(sum_delta, n),
                        RAdd(ExpectedBoostingDelta, inp.env.meta.delta))

\* C10 witness: a call on two base predictors with different outputs and a
\* non-uniform weight vector, so that the three aggregates all differ.
C10_Witness ==
    /\ res.kind = "predict"
    /\ res.out.kind = "ok"
    /\ Len(inp.env.base) = 2
    /\ inp.env.base[1] # inp.env.base[2]
    /\ res.out.details.bagging # res.out.details.boosting
    /\ res.out.details.bagging # res.out.details.stacking
    /\ res.out.details.boosting # res.out.details.stacking

\* The probability triples and deltas of the three aggregates a call
\* returned; model.py returns no aggregate deltas, there the boosting delta
\* is what the final delta leaves once bagging and stacking are taken out.
ResAggregates ==
    LET n == Len(inp.env.base)
        det == res.out.details
        avg_delta == RDivInt(SumTo([i \in 1..n |-> inp.env.base[i].delta], n), n)
    IN  IF res.kind = "em_predict"
        THEN [bagging |-> det.bagging[1], boosting |-> det.boosting[1],
              stacking |-> det.stacking[1], bagging_delta |-> det.bagging[2],
              boosting_delta |-> det.boosting[2]]
        ELSE [bagging |-> det.bagging, boosting |-> det.boosting,
              stacking |-> det.stacking, bagging_delta |-> avg_delta,
              boosting_delta |->
                  RSub(RSub(RMul(res.out.final_delta, RInt(3)), avg_delta),
                       inp.env.meta.delta)]

AggregatorReturned == res.kind \in {"predict", "em_predict"} /\ res.out.kind = "ok"

NonUniform(w) == \E i, j \in DOMAIN w : w[i] # w[j]

\* C11: the boosting probabilities and delta of EnsemblePredictor.predict
\* (both files) are the weighted mean of the base outputs under
\* model_weights, one weight per base predictor; with model_weights None
\* they are exactly the bagging probabilities and delta.
C11_BoostingIsWeightedMean ==
    AggregatorReturned =>
        LET n == Len(inp.env.base)
            w == inp.ens.model_weights
            a == ResAggregates
        IN  IF w = None
            THEN a.boosting = a.bagging /\ a.boosting_delta = a.bagging_delta
            ELSE /\ Len(w.w) = n
                 /\ \A c \in Classes :
                       RMul(a.boosting[c], SumTo(w.w, n))
                         = SumTo([i \in 1..n |-> RMul(w.w[i], inp.env.base[i].probs[c])], n)
                 /\ RMul(a.boosting_delta, SumTo(w.w, n))
                       = SumTo([i \in 1..n |-> RMul(w.w[i], inp.env.base[i].delta)], n)

\* C11 witness: a call with a non-uniform weight vector on two base
\* predictors with different outputs, whose boosting result is not the
\* bagging result.
C11_Witness ==
    /\ AggregatorReturned
    /\ res.kind = "em_predict"
    /\ inp.ens.model_weights # None
    /\ NonUniform(inp.ens.model_weights.w)
    /\ Len(inp.env.base) = 2
    /\ inp.env.base[1].probs # inp.env.base[2].probs
    /\ res.out.details.boosting # res.out.details.bagging

\* C12 (as specified): whenever the weight vector is non-uniform the boosting
\* aggregate differs from the bagging aggregate, whatever the base outputs.
C12_NonUniformAlwaysDiffers ==
    (AggregatorReturned /\ inp.ens.model_weights # None
        /\ NonUniform(inp.ens.model_weights.w)) =>
        \/ ResAggregates.boosting # ResAggregates.bagging
        \/ ResAggregates.boosting_delta # ResAggregates.bagging_delta

\* C12: base predictors that all return the same output give a boosting
\* aggregate equal to the bagging aggregate under every weight vector, the
\* non-uniform ones included; with two base predictors and non-uniform
\* weights the boosting probabilities differ from the bagging probabilities
\* exactly when the two base triples differ.
C12_NonUniformDiffersOnDistinctOutputs ==
    AggregatorReturned =>
        LET n == Len(inp.env.base)
            w == inp.ens.model_weights
            a == ResAggregates
        IN  /\ (\A i, j \in 1..n : inp.env.base[i] = inp.env.base[j]) =>
                    a.boosting = a.bagging /\ a.boosting_delta = a.bagging_delta
            /\ (n = 2 /\ w # None /\ NonUniform(w.w)) =>
                    ((a.boosting # a.bagging)
                        <=> (inp.env.base[1].probs # inp.env.base[2].probs))

\* C12 witness: non-uniform weights on two base predictors that return the
\* same output, and a boosting aggregate equal to the bagging aggregate.
C12_Witness ==
    /\ AggregatorReturned
    /\ res.kind = "em_predict"
    /\ Len(inp.env.base) = 2
    /\ inp.ens.model_weights # None
    /\ NonUniform(inp.ens.model_weights.w)
    /\ inp.env.base[1] = inp.env.base[2]
    /\ res.out.details.boosting = res.out.details.bagging

TripleSum(p) == RAdd(RAdd(p[0], p[1]), p[2])

\* C13: when every base triple and the meta triple sum to 1, the bagging,
\* boosting, stacking and final triples EnsemblePredictor.predict returns
\* each sum to 1, under every loaded weight vector (normalized or not).
C13_TriplesSumToOne ==
    (AggregatorReturned
        /\ \A i \in 1..Len(inp.env.base) : TripleSum(inp.env.base[i].probs) = RInt(1)
        /\ TripleSum(inp.env.meta.probs) = RInt(1)) =>
        /\ TripleSum(ResAggregates.bagging) = RInt(1)
        /\ TripleSum(ResAggregates.boosting) = RInt(1)
        /\ TripleSum(ResAggregates.stacking) = RInt(1)
        /\ TripleSum(res.out.final_action) = RInt(1)

\* C13 witness: a call with a loaded weight vector that does not sum to 1 on
\* base predictors with different outputs.
C13_Witness ==
    /\ AggregatorReturned
    /\ res.kind = "predict"
    /\ inp.ens.model_weights # None
    /\ SumTo(inp.ens.model_weights.w, Len(inp.env.base)) # RInt(1)
    /\ inp.env.base[1].probs # inp.env.base[2].probs
    /\ TripleSum(res.out.details.boosting) = RInt(1)

\* An HFTModel.predict call on the inputs under test returned a decision.
DecisionReturned == res.kind = "HFTModel.predict" /\ res.out.kind = "return"

\* C17: the confidence of every decision a successful HFTModel.predict
\* returns is a percentage between 0 and 100, 100 times the confidence of
\* predict_ensemble_high_confidence, whatever the final probability triple
\* and the agreement rate are.
C17_ConfidenceIsPercentage ==
    DecisionReturned =>
        LET d == res.out.value
            fin == InpAggregates.final_action
        IN  /\ RLe(RInt(0), d.confidence)
            /\ RLe(d.confidence, RInt(100))
            /\ \E c \in Classes :
                  /\ \A e \in Classes : RLe(fin[e], fin[c])
                  /\ \E a \in Thirds :
                        /\ d.agreement_rate = RMul(a, RInt(100))
                        /\ d.confidence
                             = RMul(RInt(100), high_confidence(fin[c], a, DefaultMinConfidence))

\* C17 witness: a decision on a one-hot final triple with full agreement,
\* whose confidence is held at the cap, 95.
C17_Witness ==
    /\ DecisionReturned
    /\ \E c \in Classes : InpAggregates.final_action[c] = RInt(1)
    /\ res.out.value.ensemble_agreement
    /\ res.out.value.confidence = RInt(95)

\* The class index of an action label.
LabelIndex(label) == IF label = "SELL" THEN 0 ELSE IF label = "HOLD" THEN 1 ELSE 2

\* p[c] is a maximum of the triple p and no lower index holds it.
IsFirstMax(p, c) ==
    /\ \A d \in Classes : RLe(p[d], p[c])
    /\ \A d \in Classes : d < c => p[d] # p[c]

\* C18: the map HFTModel.predict uses for the action and for the bagging,
\* boosting and stacking labels is the bijection 0 <-> SELL, 1 <-> HOLD,
\* 2 <-> BUY: from an index to its label and back gives the index, for all
\* three, and the labels of a decision are those of its four classes.
C18_ActionMapBijection ==
    /\ \A c \in Classes : LabelIndex(action_map[c]) = c
    /\ {action_map[c] : c \in Classes} = {"SELL", "HOLD", "BUY"}
    /\ \A c, d \in Classes : action_map[c] = action_map[d] => c = d
    /\ DecisionReturned =>
          LET d == res.out.value
              a == InpAggregates
          IN  /\ IsFirstMax(a.final_action, LabelIndex(d.action))
              /\ IsFirstMax(a.avg_action, LabelIndex(d.details.bagging))
              /\ IsFirstMax(a.weighted_action, LabelIndex(d.details.boosting))
              /\ IsFirstMax(a.stacked_action, LabelIndex(d.details.stacking))

\* C18 witness: a decision whose action and method labels show all three
\* labels.
C18_Witness ==
    /\ DecisionReturned
    /\ {res.out.value.action, res.out.value.details.bagging,
         res.out.value.details.boosting, res.out.value.details.stacking}
          = {"SELL", "HOLD", "BUY"}

\* C19: when classes tie exactly for the highest probability, the bagging,
\* boosting, stacking and final classes are each the lowest tied index, and
\* the agreement rate counts the methods whose so chosen class is the final
\* class.
C19_ArgmaxLowestIndexOnTie ==
    res.kind = "predict_ensemble_high_confidence" =>
        LET a == InpAggregates
            o == res.out
            e == o.ensemble_details
        IN  /\ IsFirstMax(a.final_action, o.class)
            /\ IsFirstMax(a.avg_action, e.bagging)
            /\ IsFirstMax(a.weighted_action, e.boosting)
            /\ IsFirstMax(a.stacked_action, e.stacking)
            /\ o.agreement_rate
                 = R(Cardinality({m \in {"bagging", "boosting", "stacking"} : e[m] = o.class}), 3)

\* C19 witness: the final probabilities tie between classes 1 and 2 only,
\* class 1 is reported, the stacking probabilities tie as well, and one
\* method disagrees with the final class.
C19_Witness ==
    /\ res.kind = "predict_ensemble_high_confidence"
    /\ InpAggregates.final_action[1] = InpAggregates.final_action[2]
    /\ RLt(InpAggregates.final_action[0], InpAggregates.final_action[1])
    /\ res.out.class = 1
    /\ \E c, d \in Classes :
          /\ c < d
          /\ IsFirstMax(inp.env.meta.probs, c)
          /\ inp.env.meta.probs[c] = inp.env.meta.probs[d]
    /\ res.out.agreement_rate = R(2, 3)

\* C20: in one EnsemblePredictor.predict call (both files) the meta
\* predictor is invoked at most once, exactly once when the call returns,
\* and only after every one of the N base predictors has been invoked in
\* index order; its input has length 4N and holds, for each base predictor
\* in index order, its three probabilities followed by its delta.
C20_MetaAfterAllBase ==
    (res.kind \in {"predict", "em_predict"}) =>
        LET n == Len(inp.ens.base_models)
            calls == res.calls
            meta_calls == {k \in 1..Len(calls) : calls[k].op = "meta.predict"}
        IN  /\ Cardinality(meta_calls) <= 1
            /\ res.out.kind = "ok" => Cardinality(meta_calls) = 1
            /\ \A k \in meta_calls :
                  /\ k = n + 1
                  /\ k = Len(calls)
                  /\ \A i \in 1..n :
                        calls[i] = [op |-> "base.predict", model |-> inp.ens.base_models[i]]
                  /\ Len(calls[k].features) = 4 * n
                  /\ \A i \in 1..n :
                        /\ \A c \in Classes :
                              calls[k].features[4 * (i - 1) + c + 1] = inp.env.base[i].probs[c]
                        /\ calls[k].features[4 * i] = inp.env.base[i].delta

\* C20 witness: a returned call on two base predictors with different
\* outputs: two base invocations, then the meta predictor on 8 features.
C20_Witness ==
    /\ res.kind = "predict"
    /\ res.out.kind = "ok"
    /\ Len(res.calls) = 3
    /\ inp.env.base[1] # inp.env.base[2]
    /\ res.calls[3].op = "meta.predict"
    /\ Len(res.calls[3].features) = 8

\* C21 (as specified): models/confidence_calibration.py computes
\* agreement_rate as the number of the three method classes equal to the
\* class of the final probabilities, over 3, the value model.py computes for
\* the same aggregates.
C21_CCAgreementAgainstFinal ==
    res.kind = "cc_predict_ensemble_high_confidence" =>
        LET e == res.out.ensemble_details
            fin == np_argmax(InpAggregates.final_action)
        IN  /\ res.out.agreement_rate
                 = R(Cardinality({m \in {"bagging", "boosting", "stacking"} : e[m] = fin}), 3)
            /\ res.out.agreement_rate
                 = predict_ensemble_high_confidence(
                       EnsemblePredictor_predict(inp.ens, inp.env),
                       inp.min_confidence).agreement_rate

------------------------------------------------------------------------------
(* Properties of calculate_model_weights (SpecWeights).                    *)

\* The accuracy of base predictor i on the validation set of the call.
InpAccuracy(i) ==
    R(Cardinality({k \in DOMAIN inp.hits[i] : inp.hits[i][k]}), Len(inp.hits[i]))

\* C14: after calculate_model_weights, model_weights holds one weight per
\* base predictor, weight_i = accuracy_i / sum of the accuracies, every
\* weight is a nonnegative number and the weights sum to 1, for every
\* combination of accuracies, all of them 0 included.
C14_WeightsNormalized ==
    res.kind = "calculate_model_weights" =>
        LET n == Len(ensemble.base_models)
            w == ensemble.model_weights.w
            total == SumTo([i \in 1..n |-> InpAccuracy(i)], n)
        IN  /\ Len(w) = n
            /\ \A i \in 1..n : w[i].d # 0
            /\ \A i \in 1..n : RLe(RInt(0), w[i])
            /\ \A i \in 1..n : RMul(w[i], total) = InpAccuracy(i)
            /\ SumTo(w, n) = RInt(1)

------------------------------------------------------------------------------
(* Properties of the HFTModel lifecycle (Spec).                            *)

\* What predict can return or raise for a symbol in the current state.
PredictOutcomes(symbol) ==
    {HFTModel_predict(is_loaded, ensemble, symbol, de[1], de[2]) :
        de \in UNION {{<<data, env>> : env \in EnvFor(data)} : data \in DataChoices}}

\* The entries a predict_batch call in progress or just returned has
\* collected, with the symbols it was handed and what each predict call did.
Batch ==
    IF call # None
    THEN [symbols |-> call.symbols, results |-> call.results, outcomes |-> call.outcomes,
          returned |-> FALSE]
    ELSE IF ret # None /\ ret.op = "predict_batch"
    THEN [symbols |-> ret.args.symbols, results |-> ret.out.value,
          outcomes |-> ret.args.outcomes, returned |-> TRUE]
    ELSE None

\* C1: predict_batch returns exactly one entry per input symbol, in input
\* order, in the loaded and in the not-loaded state.  The entry of a symbol
\* whose predict raised (not loaded, missing or insufficient data, a failing
\* predictor or aggregation) is exactly {symbol, error}, with no decision
\* field; every other entry is a decision predict can return for that symbol
\* on its own.  A failure does not stop the loop, and the entries collected
\* before it stay as they were.
C1_BatchOneEntryPerSymbol ==
    Batch # None =>
        /\ Len(Batch.results) <= Len(Batch.symbols)
        /\ Batch.returned => Len(Batch.results) = Len(Batch.symbols)
        /\ Batch.returned => ret.out.kind = "return"
        /\ \A i \in 1..Len(Batch.results) :
              LET entry == Batch.results[i]
                  out == Batch.outcomes[i]
              IN  /\ out \in PredictOutcomes(Batch.symbols[i])
                  /\ "symbol" \in DOMAIN entry
                  /\ entry.symbol = Batch.symbols[i]
                  /\ IF out.kind = "raise"
                     THEN /\ DOMAIN entry = {"symbol", "error"}
                          /\ entry.error = out.error
                     ELSE /\ entry = out.value
                          /\ "error" \notin DOMAIN entry
                          /\ "action" \in DOMAIN entry

\* A returned batch of two symbols on a loaded model whose first predict
\* raised and whose second returned a decision.
C1_Witness ==
    /\ ret # None /\ ret.op = "predict_batch"
    /\ is_loaded
    /\ Len(ret.args.symbols) = 2
    /\ Len(ret.out.value) = 2
    /\ ret.args.outcomes[1].kind = "raise"
    /\ ret.args.outcomes[2].kind = "return"
    /\ DOMAIN ret.out.value[1] = {"symbol", "error"}
    /\ ret.out.value[2].action \in {"SELL", "HOLD", "BUY"}

\* C5: after load_ensemble on a directory with no base predictor artifact at
\* index 0 the model is in the not-loaded state: is_loaded is false,
\* get_model_info would answer not_loaded and predict would raise the
\* not-loaded error.
C5_NoBaseMeansNotLoaded ==
    (ret # None /\ ret.op = "load_ensemble" /\ 0 \notin ret.args.model_path.base) =>
        /\ ~is_loaded
        /\ \A symbol \in Symbols :
              PredictOutcomes(symbol) = {Raise(<<"Model not loaded. Call load_ensemble() first.">>)}


NotLoadedError == Raise(<<"Model not loaded. Call load_ensemble() first.">>)

\* A predict call has just returned or raised.
PredictDone == ret # None /\ ret.op = "predict"

\* In the not-loaded state predict raised the not-loaded error having
\* touched neither the data nor a predictor, and get_model_info returned
\* only the status.
C15_NotLoadedAnswers ==
    /\ (PredictDone /\ ~is_loaded) => (ret.out = NotLoadedError /\ ret.calls = <<>>)
    /\ (ret # None /\ ret.op = "get_model_info" /\ ~is_loaded) =>
            ret.out = [kind |-> "return", value |-> [status |-> "not_loaded"]]

\* C15: while is_loaded is false (before any load_ensemble, or after one that
\* failed) predict raises the 'Model not loaded' error before it reads any
\* data or invokes any predictor, and leaves is_loaded, the ensemble and the
\* predictor as they were; get_model_info then returns only status
\* not_loaded.
C15_PredictNotLoaded ==
    /\ []C15_NotLoadedAnswers
    /\ [][(~is_loaded /\ ret = None /\ ret' # None /\ ret'.op \in {"predict", "get_model_info"})
            => UNCHANGED <<is_loaded, ensemble, predictor>>]_vars

\* C15 witness: after a failed load_ensemble, which left a partly loaded
\* ensemble behind, predict is called on a symbol with enough data and
\* raises the not-loaded error.
C15_Witness ==
    /\ PredictDone
    /\ ~is_loaded
    /\ ensemble # None
    /\ Len(ensemble.base_models) > 0
    /\ ret.args.data.csv = "ok"
    /\ ret.args.data.rows >= window_seconds
    /\ ret.out = NotLoadedError

\* C16: on a loaded model whose data file is read, predict raises the
\* insufficient-data error, with no base or meta predictor invoked, exactly
\* when the symbol has fewer than window_seconds rows; from window_seconds
\* rows on it takes the last window_seconds rows of the time-sorted frame as
\* the window and goes on to the predictors.
C16_InsufficientData ==
    (PredictDone /\ is_loaded /\ ret.args.data.csv = "ok") =>
        LET rows == ret.args.data.rows
            short == Raise(<<"Insufficient data for ", ret.args.symbol>>)
        IN  /\ (ret.out = short) <=> (rows < window_seconds)
            /\ rows < window_seconds =>
                  \A k \in 1..Len(ret.calls) :
                      ret.calls[k].op \notin {"base.predict", "meta.predict"}
            /\ rows >= window_seconds =>
                  /\ Len(ret.calls) >= 2
                  /\ ret.calls[2] = [op |-> "tail", first |-> rows - window_seconds + 1,
                                      last |-> rows]
                  /\ ret.calls[2].last - ret.calls[2].first + 1 = window_seconds
                  /\ Len(ensemble.base_models) > 0 =>
                        (Len(ret.calls) >= 3 /\ ret.calls[3].op = "base.predict")

\* C16 witness: a symbol with exactly window_seconds rows, for which predict
\* invoked the predictors and returned a decision.
C16_Witness ==
    /\ PredictDone
    /\ is_loaded
    /\ ret.args.data.rows = window_seconds
    /\ ret.out.kind = "return"
    /\ ret.calls[Len(ret.calls)].op = "meta.predict"


\* The smallest index at which a directory has no base artifact.
SmallestMissing(dir) ==
    CHOOSE k \in 0..(MaxBase + 2) : k \notin dir.base /\ \A j \in 0..(k - 1) : j \in dir.base

\* Loading the directory meets an artifact that cannot be read: a base
\* artifact below the first gap, the meta predictor or the weight file.
DirRaises(dir) ==
    \/ dir.corrupt.kind = "base" /\ dir.corrupt.i < SmallestMissing(dir)
    \/ dir.corrupt.kind \in {"meta", "weights"}

LoadDone == ret # None /\ ret.op = "load_ensemble"

\* C23: load takes exactly the base artifacts 0..k-1 in index order, k the
\* smallest missing index; artifacts above the gap are not loaded and cause
\* no failure, unreadable ones included; a predict that returns has invoked
\* each loaded base predictor once, in order.
C23_LoadsUpToFirstGap ==
    /\ LoadDone =>
          LET dir == ret.args.model_path
              k == SmallestMissing(dir)
          IN  /\ ~(dir.corrupt.kind = "base" /\ dir.corrupt.i < k) =>
                    ensemble.base_models = [i \in 1..k |-> i - 1]
              /\ Len(ensemble.base_models) <= k
              /\ (dir.corrupt.kind = "none"
                    \/ (dir.corrupt.kind = "base" /\ dir.corrupt.i > k)) => is_loaded
    /\ (PredictDone /\ ret.out.kind = "return") =>
          LET n == Len(ensemble.base_models)
              base_calls == {k \in 1..Len(ret.calls) : ret.calls[k].op = "base.predict"}
          IN  /\ base_calls = 3..(n + 2)
              /\ \A i \in 1..n : ret.calls[i + 2].model = ensemble.base_models[i]

\* C23 witness: a directory with base artifacts 0 and 2 only has been
\* loaded: one base predictor, and the model reports loaded.
C23_Witness ==
    /\ LoadDone
    /\ ret.args.model_path.base = {0, 2}
    /\ ensemble.base_models = <<0>>
    /\ is_loaded

\* C29: load_ensemble always returns; each call sets is_loaded to whether
\* that call met no exception, whatever it was before, and nothing else
\* changes it; while it is false predict is rejected as not loaded.
C29_LoadEnsembleSetsIsLoaded ==
    /\ [](LoadDone => ret.out.kind = "return")
    /\ []((PredictDone /\ ~is_loaded) => ret.out = NotLoadedError)
    /\ [][IF ret = None /\ ret' # None /\ ret'.op = "load_ensemble"
           THEN is_loaded' = ~DirRaises(ret'.args.model_path)
           ELSE is_loaded' = is_loaded]_vars

\* C29 witness: a successful load_ensemble (the predictor it made is still
\* there) was followed by a failed one, and predict has been rejected.
C29_Witness ==
    /\ PredictDone
    /\ predictor # None
    /\ ~is_loaded
    /\ ret.out = NotLoadedError


------------------------------------------------------------------------------
(* Properties of repeated EnsemblePredictor.load (SpecLoad).               *)

\* C28 (as specified): after any sequence of load calls on one object, the
\* meta predictor and the weight vector it holds are those of the path
\* loaded last: absent when that path has no such artifact, and the weight
\* vector has one weight per loaded base predictor of that path.
C28_HoldsLatestPathOnly ==
    (res.kind = "load" /\ ~res.raised) =>
        /\ ensemble.meta_model = res.path.meta
        /\ ensemble.model_weights = res.path.weights
        /\ ensemble.base_models = [i \in 1..SmallestMissing(res.path) |-> i - 1]


------------------------------------------------------------------------------
(* The /history/{symbol} endpoint of the API server.                       *)

MaxRows == 3        \* the data file holds at most MaxRows rows
MaxPoints == 2      \* explicit points arguments are -1..MaxPoints
DefaultPoints == 100

\* The rows of processed/combined_1s.csv: a symbol and a datetime each.
CsvRows == [symbol : Symbols, datetime : 1..2]

RECURSIVE CsvFiles(_)
CsvFiles(n) ==
    IF n = 0 THEN {<<>>}
    ELSE CsvFiles(n - 1) \cup {Append(f, r) : f \in {g \in CsvFiles(n - 1) : Len(g) = n - 1}, r \in CsvRows}

\* DataFrame.sort_values("datetime"): ascending in datetime.
RECURSIVE sort_values(_)
sort_values(rows) ==
    IF rows = <<>> THEN <<>>
    ELSE LET h == Head(rows)
             t == Tail(rows)
         IN  sort_values(SelectSeq(t, LAMBDA r : r.datetime < h.datetime))
                \o <<h>>
                \o sort_values(SelectSeq(t, LAMBDA r : r.datetime >= h.datetime))

\* DataFrame.tail(n): the last n rows, for negative n all rows but the
\* first -n.
df_tail(rows, n) ==
    LET len == Len(rows)
        keep == IF n >= 0 THEN (IF n < len THEN n ELSE len)
                ELSE (IF len + n > 0 THEN len + n ELSE 0)
    IN  SubSeq(rows, len - keep + 1, len)

HTTPException(status_code, detail) ==
    [kind |-> "HTTPException", status_code |-> status_code, detail |-> detail]

\* The body of the try block of get_history: what it returns or raises.
get_history_try(file, symbol, points) ==
    IF file.csv = "missing" THEN [kind |-> "FileNotFoundError"]
    ELSE LET df_sym == df_tail(sort_values(SelectSeq(file.rows, LAMBDA r : r.symbol = symbol)), points)
         IN  IF Len(df_sym) = 0
             THEN HTTPException(404, [kind |-> "No data found for symbol", symbol |-> symbol])
             ELSE [kind |-> "return", symbol |-> symbol,
                   data |-> [i \in 1..Len(df_sym) |-> [timestamp |-> df_sym[i].datetime]],
                   points |-> Len(df_sym)]

\* get_history: except Exception catches whatever the try block raises,
\* HTTPException included, and raises HTTPException(500, str(e)).
get_history(file, symbol, points) ==
    LET out == get_history_try(file, symbol, points)
    IN  IF out.kind = "return" THEN out
        ELSE HTTPException(500, [kind |-> "str", e |-> out])

HistoryRequests ==
    [kind : {"GET /history"},
     file : {[csv |-> "missing", rows |-> <<>>]} \cup {[csv |-> "ok", rows |-> f] : f \in CsvFiles(MaxRows)},
     symbol : Symbols,
     points : (-1..MaxPoints) \cup {DefaultPoints}]

InitApi ==
    /\ IdleObject
    /\ inp \in HistoryRequests
    /\ res = None

CallGetHistory ==
    /\ res = None
    /\ res' = get_history(inp.file, inp.symbol, inp.points)
    /\ UNCHANGED <<is_loaded, ensemble, predictor, call, ret, inp>>

NextApi == CallGetHistory

SpecApi == InitApi /\ [][NextApi]_vars

\* The file can be read and holds no row of the requested symbol.
NoDataRows ==
    /\ inp.file.csv = "ok"
    /\ SelectSeq(inp.file.rows, LAMBDA r : r.symbol = inp.symbol) = <<>>

\* C30 (as specified): /history/{symbol} answers a symbol without data rows
\* with HTTP 404, and answers 500 only when something else failed.
C30_NoDataIs404 ==
    (res # None /\ res.kind = "HTTPException") =>
        /\ NoDataRows => res.status_code = 404
        /\ res.status_code = 500 => ~NoDataRows

====
